---------------------------- MODULE Spec2Model ----------------------------
(***************************************************************************)
(* A model of the instrumentation and trace subsystem of gpuocelot:        *)
(*   - analysis::BasicBlockInstrumentor  (BasicBlockInstrumentor.cpp)      *)
(*   - trace::MemoryTraceGenerator, its Header and the static extent()     *)
(*     function (MemoryTraceGenerator.cpp)                                 *)
(* Each subsystem has its own specification (SpecInstr, SpecHeader,        *)
(* SpecPair, SpecExtent, SpecTrace): they share no state in the program.   *)
(***************************************************************************)
EXTENDS Integers, Sequences, FiniteSets, TLC

VARIABLES
    \* ---- analysis::BasicBlockInstrumentor (one instance) ----
    kernelName,     \* PTXInstrumentor::kernelName ("" = no target kernel)
    type,           \* BasicBlockInstrumentor::type
    typeAssigned,   \* whether the configuration ever assigned `type`
    entries,        \* BasicBlockInstrumentor::entries
    basicBlocks,    \* BasicBlockInstrumentor::basicBlocks
    labels,         \* PTXInstrumentor::labels
    threads,        \* PTXInstrumentor::threads
    threadBlocks,   \* PTXInstrumentor::threadBlocks
    counter,        \* BasicBlockInstrumentor::counter (device pointer)
    pass,           \* PTXInstrumentor::pass (the pass object createPass returned)
    kernelProfile,  \* PTXInstrumentor::_kernelProfile
    info,           \* the host array the last handler returned (<<>>: none)
    out,            \* the report the last handler wrote to *out
    device,         \* device memory: address -> [live, len, zeroed, data]
    symbol,         \* the device symbol basicBlockCounterBase (0 = never bound)
    devLog,         \* the device-memory calls the last handler issued, in order
    instrCall,      \* the last handler called on the instrumentor and how it ended
    \* ---- trace::MemoryTraceGenerator::Header (one object, called directly) ----
    header,         \* a Header object
    headerArgs,     \* what was passed to it so far: the Global/Texture addresses,
                    \* and per address space the access calls and their bytes
    \* ---- trace::MemoryTraceGenerator ----
    _counter,       \* the static session counter
    gen,            \* the generators: their fields
    files,          \* the file system: path -> the records written to the file
    traceDatabase,  \* the entries registered with updateDatabase, in order
    initLog,        \* the initialize calls so far: generator, paths derived, counter read
    traceCall       \* the last handler called on a generator and how it ended

instrVars == <<kernelName, type, typeAssigned, entries, basicBlocks, labels,
               threads, threadBlocks, counter, pass, kernelProfile, info, out,
               device, symbol, devLog, instrCall>>

headerVars == <<header, headerArgs>>

traceVars == <<_counter, gen, files, traceDatabase, initLog, traceCall>>

vars == <<instrVars, headerVars, traceVars>>

-----------------------------------------------------------------------------
(* Bounds of the model.                                                    *)

\* the largest number of named basic blocks of a kernel of the module
MaxBlocks == 3
\* the largest number of thread blocks of a launch
MaxThreadBlocks == 2
\* the largest number of threads per block of the small launches
MaxThreads == 2
\* the threads per block of the one large launch (a full warp)
WarpThreads == 32
\* the number of counter buffers the device memory has room for
MaxBuffers == 1
\* the number of calls made on the Header object that is called directly
MaxHeaderCalls == 3
\* the number of initialize calls in one process
MaxSessions == 2
\* the number of events a generator is given between two initialize calls
MaxTraceEvents == 1
\* the number of events of the kernel traced by both generators
MaxPairEvents == 2
\* the number of events logged in the one-session specification
MaxLogEvents == 2
\* the number of parameters of a kernel, and of elements of a parameter
MaxParameters == 2
MaxElements == 2

-----------------------------------------------------------------------------
(* Generic helpers.                                                        *)

RECURSIVE SumSeq(_)
SumSeq(s) == IF s = <<>> THEN 0 ELSE s[1] + SumSeq(Tail(s))

\* ir::PTXU64 values are held as their 8 bytes, most significant first
Zero64 == [i \in 1..8 |-> 0]
MaxU64 == [i \in 1..8 |-> 255]
\* the PTXU64 of a number below 2^31
U64(n) == [i \in 1..8 |-> IF i <= 4 THEN 0 ELSE (n \div (256 ^ (8 - i))) % 256]
RECURSIVE LtFrom(_, _, _)
\* a < b, given that the bytes before byte i are equal
LtFrom(a, b, i) == IF i > 8 THEN FALSE
                   ELSE IF a[i] = b[i] THEN LtFrom(a, b, i + 1)
                   ELSE a[i] < b[i]
\* a < b
Lt64(a, b) == LtFrom(a, b, 1)
RECURSIVE Carry64(_, _, _)
\* the carry into byte i of a + b
Carry64(a, b, i) == IF i = 8 THEN 0 ELSE (a[i + 1] + b[i + 1] + Carry64(a, b, i + 1)) \div 256
\* a + b modulo 2^64
Add64(a, b) == [i \in 1..8 |-> (a[i] + b[i] + Carry64(a, b, i)) % 256]

RECURSIVE SumOver(_, _)
\* the sum of f[x] over the finite set S
SumOver(f, S) ==
    IF S = {} THEN 0
    ELSE LET x == CHOOSE y \in S : TRUE IN f[x] + SumOver(f, S \ {x})


-----------------------------------------------------------------------------
(* ir::Module: the kernel set handed to analyze.                           *)

KernelNameSeq == <<"k1", "k2", "k3", "k4", "k5">>
BlockLabelSeq == <<"BB_0", "BB_1", "BB_2", "BB_3", "BB_4">>

\* the control-flow graph of a kernel with n named blocks, in graph order
CfgLabels(n) == <<"entry">> \o SubSeq(BlockLabelSeq, 1, n) \o <<"exit">>

\* module.kernels(): kernel name -> kernel; the dataflow graph has one node
\* per control-flow block, the synthetic entry and exit blocks included
ModuleKernels ==
    [name \in {KernelNameSeq[n] : n \in 1..MaxBlocks} |->
        LET n == CHOOSE m \in 1..MaxBlocks : KernelNameSeq[m] = name
        IN  [cfg |-> CfgLabels(n), dfgSize |-> n + 2]]

\* the values kernelName takes: no target, a name the module lacks, a kernel
KernelNameInputs == {"", "missing"} \cup DOMAIN ModuleKernels

-----------------------------------------------------------------------------
(* BasicBlockInstrumentor: types and values.                               *)

\* enum BasicBlockInstrumentationType, plus a value outside the enumeration
InstrumentationTypes == {"instructionCount", "executionCount", "memoryIntensity"}
TypeValues == InstrumentationTypes \cup {"unrecognized"}

\* a field the constructor leaves indeterminate and no handler has set yet
Uninit == -1
NullPtr == 0
NoPass == [class |-> "none", entries |-> 0]
\* the words an uninitialized array may hold (one value per array)
GarbageWords == {0, 7}

NoCall == [op |-> "none", result |-> "ok"]
EmptyProfile == [exec |-> <<>>, mem |-> <<>>]
NoReport == [kernel |-> "", threadBlocks |-> 0, threads |-> 0, counters |-> <<>>]

OkCall(op) == [op |-> op, result |-> "ok"]
Threw(op, what) == [op |-> op, result |-> what]
Crashed == instrCall.result = "crash"

\* entries * basicBlocks * threadBlocks * threads
TotalElements == entries * basicBlocks * threadBlocks * threads

\* (a mutant of CounterIndex: the thread-block stride lacks the factor entries)
CounterIndexNoEntries(i, j, k) ==
    (i * entries * threads) + (k * basicBlocks * threads) + j

\* index used by extractResults for block i, thread-entry offset j (= t * entries,
\* plus 1 for the second entry), thread block k
CounterIndex(i, j, k) ==
    (i * entries * threads) + (k * basicBlocks * threads * entries) + j

\* info[n] of a host array held as a sequence (C arrays count from 0)
InfoAt(inf, n) == IF n + 1 \in DOMAIN inf THEN inf[n + 1] ELSE 0

-----------------------------------------------------------------------------
(* analyze                                                                 *)

\* module.kernels().find(name): a kernel, or end() whose dereference is undefined:
\* the build crashes, or reads kernel-shaped memory (here: that of the first kernel)
LookupOutcomes(name) ==
    IF name \in DOMAIN ModuleKernels THEN {name}
    ELSE {"crash", KernelNameSeq[1]}

RECURSIVE SumDfgSizes(_)
SumDfgSizes(names) ==
    IF names = {} THEN 0
    ELSE LET n == CHOOSE x \in names : TRUE
         IN  ModuleKernels[n].dfgSize + SumDfgSizes(names \ {n})

\* the labels analyze pushes for one kernel: all but "entry" and "exit", in order
NamedLabels(cfg) == SelectSeq(cfg, LAMBDA l : ~(l = "entry" \/ l = "exit"))

analyze ==
    /\ ~Crashed
    /\ pass = NoPass /\ counter = Uninit
    /\ Len(labels) <= MaxBlocks
    /\ \E first \in LookupOutcomes(kernelName), second \in LookupOutcomes(kernelName) :
         LET blocks == IF kernelName # ""
                       THEN (IF first = "crash" THEN 0
                             ELSE ModuleKernels[first].dfgSize - 2)
                       ELSE SumDfgSizes(DOMAIN ModuleKernels)
         IN  IF kernelName # "" /\ first = "crash"
             THEN /\ instrCall' = Threw("analyze", "crash")
                  /\ basicBlocks' = 0
                  /\ UNCHANGED labels
             ELSE IF second = "crash"
             THEN /\ instrCall' = Threw("analyze", "crash")
                  /\ basicBlocks' = blocks
                  /\ UNCHANGED labels
             ELSE /\ instrCall' = OkCall("analyze")
                  /\ basicBlocks' = blocks
                  /\ labels' = labels \o NamedLabels(ModuleKernels[second].cfg)
    /\ devLog' = <<>> /\ info' = <<>> /\ out' = NoReport
    /\ UNCHANGED <<kernelName, type, typeAssigned, entries, threads, threadBlocks,
                   counter, pass, kernelProfile, device, symbol>>

-----------------------------------------------------------------------------
(* createPass                                                              *)

PassClass(t) ==
    CASE t = "executionCount"   -> "BasicBlockExecutionCountPass"
      [] t = "instructionCount" -> "DynamicInstructionCountPass"
      [] t = "memoryIntensity"  -> "MemoryIntensityPass"
      [] OTHER                  -> "none"

\* (a mutant of EntriesFor: memoryIntensity gets one entry as the others)
EntriesAlwaysOne(t) == 1

\* the value createPass leaves in `entries` for a type
EntriesFor(t) == IF t = "memoryIntensity" THEN 2 ELSE 1

createPass ==
    /\ ~Crashed
    /\ counter = Uninit
    /\ entries' = EntriesFor(type)
    /\ IF type \in InstrumentationTypes
       THEN /\ pass' = [class |-> PassClass(type), entries |-> EntriesFor(type)]
            /\ instrCall' = OkCall("createPass")
       ELSE /\ UNCHANGED pass
            /\ instrCall' = Threw("createPass",
                                  "No basic block instrumentation pass specified!")
    /\ devLog' = <<>> /\ info' = <<>> /\ out' = NoReport
    /\ UNCHANGED <<kernelName, type, typeAssigned, basicBlocks, labels, threads,
                   threadBlocks, counter, kernelProfile, device, symbol>>

-----------------------------------------------------------------------------
(* initialize                                                              *)

\* device memory that holds no allocation
FreeBuffer == [live |-> FALSE, len |-> 0, zeroed |-> FALSE, data |-> <<>>]
\* a buffer cudaMalloc returned: its contents are indeterminate until zeroed
FreshBuffer(n) == [live |-> TRUE, len |-> n, zeroed |-> FALSE, data |-> <<>>]
ZeroedBuffer(n) == [live |-> TRUE, len |-> n, zeroed |-> TRUE,
                    data |-> [i \in 1..n |-> 0]]
\* the addresses cudaMalloc can return; it returns the lowest
FreeAddresses == {a \in DOMAIN device : ~device[a].live}

\* the stage at which the device fails in one call of initialize
InitFailures == {"none", "cudaMalloc", "cudaMemset", "cudaMemcpyToSymbol"}

\* the device calls of initialize, in program order
InitStages == <<"cudaMalloc", "cudaMemset", "cudaMemcpyToSymbol">>

\* (a mutant of StagesIssued: the later stages run although one has failed)
StagesIssuedAll(fail) == InitStages

\* the device calls one call of initialize issues: every stage when none fails,
\* else the stages up to the failing one, whose exception leaves the handler
StagesIssued(fail) ==
    IF fail = "none" THEN InitStages
    ELSE SubSeq(InitStages, 1, CHOOSE n \in DOMAIN InitStages : InitStages[n] = fail)

initialize ==
    /\ ~Crashed
    /\ entries # Uninit /\ basicBlocks # Uninit /\ pass # NoPass
    /\ \E fail \in IF FreeAddresses = {} THEN {"cudaMalloc"} ELSE InitFailures :
         LET id == IF FreeAddresses = {} THEN NullPtr
                   ELSE CHOOSE a \in FreeAddresses : \A o \in FreeAddresses : a <= o
         IN  CASE fail = "cudaMalloc" ->
                    /\ counter' = NullPtr
                    /\ devLog' = StagesIssued(fail)
                    /\ instrCall' = Threw("initialize",
                         "Could not allocate sufficient memory on device (cudaMalloc failed)!")
                    /\ UNCHANGED <<device, symbol>>
               [] fail = "cudaMemset" ->
                    /\ counter' = id
                    /\ device' = [device EXCEPT ![id] = FreshBuffer(TotalElements)]
                    /\ devLog' = StagesIssued(fail)
                    /\ instrCall' = Threw("initialize", "cudaMemset failed!")
                    /\ UNCHANGED symbol
               [] fail = "cudaMemcpyToSymbol" ->
                    /\ counter' = id
                    /\ device' = [device EXCEPT ![id] = ZeroedBuffer(TotalElements)]
                    /\ devLog' = StagesIssued(fail)
                    /\ instrCall' = Threw("initialize", "cudaMemcpyToSymbol failed!")
                    /\ UNCHANGED symbol
               [] OTHER ->
                    /\ counter' = id
                    /\ device' = [device EXCEPT ![id] = ZeroedBuffer(TotalElements)]
                    /\ devLog' = StagesIssued(fail)
                    /\ instrCall' = OkCall("initialize")
                    /\ symbol' = id
    /\ info' = <<>> /\ out' = NoReport
    /\ UNCHANGED <<kernelName, type, typeAssigned, entries, basicBlocks, labels,
                   threads, threadBlocks, pass, kernelProfile>>

-----------------------------------------------------------------------------
(* The instrumented kernel running on the device.                          *)

\* what a launch leaves in the counters: every slot a value of its own, or one
\* block executed by every thread, or the last block by the last thread only
LaunchProfiles ==
    {[kind |-> "synthetic", block |-> 0], [kind |-> "one", block |-> basicBlocks - 1]}
    \cup {[kind |-> "all", block |-> b] : b \in 0..(basicBlocks - 1)}

\* the value the launch leaves in the slot of (block b, entry e, thread t, block k)
SlotValue(p, b, e, t, k) ==
    CASE p.kind = "synthetic" -> 1000 * b + 100 * e + 10 * t + k
      [] OTHER ->
           IF b = p.block /\ (p.kind = "all" \/ (t = threads - 1 /\ k = threadBlocks - 1))
           THEN (IF e = 0 THEN 1 ELSE b + 2)
           ELSE 0

\* the counter array after a launch, slot (b, e, t, k) at
\* b*entries*threads + k*basicBlocks*threads*entries + t*entries + e
LaunchData(p) ==
    [n \in 1..TotalElements |->
        LET idx == n - 1
            e == idx % entries
            t == (idx \div entries) % threads
            b == (idx \div (entries * threads)) % basicBlocks
            k == idx \div (entries * threads * basicBlocks)
        IN  SlotValue(p, b, e, t, k)]

KernelLaunch ==
    /\ ~Crashed
    /\ symbol # NullPtr
    /\ entries # Uninit /\ basicBlocks # Uninit /\ pass.entries = entries
    /\ LET buf == device[symbol]
       IN  /\ buf.live /\ buf.zeroed /\ buf.len = TotalElements
           /\ \A i \in 1..buf.len : buf.data[i] = 0
    /\ \E p \in LaunchProfiles :
         device' = [device EXCEPT ![symbol].data = LaunchData(p)]
    /\ UNCHANGED <<kernelName, type, typeAssigned, entries, basicBlocks, labels,
                   threads, threadBlocks, counter, pass, kernelProfile, info, out,
                   symbol, devLog, instrCall>>

-----------------------------------------------------------------------------
(* extractResults                                                          *)

RECURSIVE ThreadLoopStepOne(_, _, _, _, _)
\* (a mutant of ThreadLoop: j advances by 1, not by entries)
ThreadLoopStepOne(inf, i, k, j, off) ==
    IF j < threads * entries
    THEN InfoAt(inf, CounterIndex(i, j + off, k))
         + ThreadLoopStepOne(inf, i, k, j + 1, off)
    ELSE 0

RECURSIVE ThreadLoop(_, _, _, _, _)
\* for(j = ...; j < threads * entries; j = j + entries) sum += info[index + off]
ThreadLoop(inf, i, k, j, off) ==
    IF j < threads * entries
    THEN InfoAt(inf, CounterIndex(i, j + off, k)) + ThreadLoop(inf, i, k, j + entries, off)
    ELSE 0

RECURSIVE ThreadBlockLoop(_, _, _, _)
\* for(k = ...; k < threadBlocks; k++): what the loops add to the map entry of block i
ThreadBlockLoop(inf, i, k, off) ==
    IF k < threadBlocks
    THEN ThreadLoop(inf, i, k, 0, off) + ThreadBlockLoop(inf, i, k + 1, off)
    ELSE 0

\* _kernelProfile.basicBlockExecutionCountMap after the loops (cleared before them)
ExecutionCountMap(inf) ==
    [i \in 0..(basicBlocks - 1) |-> ThreadBlockLoop(inf, i, 0, 0)]

\* _kernelProfile.memoryOperationsMap after the loops: touched only for memoryIntensity
MemoryOperationsMap(inf) ==
    IF type = "memoryIntensity"
    THEN [i \in 0..(basicBlocks - 1) |-> ThreadBlockLoop(inf, i, 0, 1)]
    ELSE <<>>

\* the report line of block j: labels[j], the count and, for memoryIntensity, the
\* memory operations (-1: not written)
ReportLine(prof, j) ==
    [label |-> IF j < Len(labels) THEN labels[j + 1] ELSE "<out of bounds>",
     count |-> prof.exec[j],
     memory |-> IF type = "memoryIntensity" THEN prof.mem[j] ELSE -1]

Report(prof) ==
    [kernel |-> kernelName, threadBlocks |-> threadBlocks, threads |-> threads,
     counters |-> [n \in 1..basicBlocks |-> ReportLine(prof, n - 1)]]

\* cudaMemcpy(info, counter, total words): the words that reach the host array,
\* <<>> when the call fails (freed or too short a buffer, or a device error)
CopyDeviceToHost(buf, total, deviceError, garbage) ==
    IF deviceError \/ ~buf.live \/ buf.len < total THEN <<>>
    ELSE IF buf.zeroed THEN SubSeq(buf.data, 1, total)
    ELSE [i \in 1..total |-> garbage]

extractResults ==
    /\ ~Crashed
    /\ entries # Uninit /\ basicBlocks # Uninit /\ counter # Uninit
    /\ \E garbage \in GarbageWords, deviceError \in BOOLEAN,
          labelRead \in IF Len(labels) < basicBlocks THEN {"crash", "garbage"}
                        ELSE {"none"} :
         LET total == TotalElements
             fresh == [i \in 1..total |-> garbage]
             copied == IF counter = NullPtr THEN <<>>
                       ELSE CopyDeviceToHost(device[counter], total, deviceError,
                                             garbage)
             copyOk == counter # NullPtr /\ (total = 0 \/ copied # <<>>)
             inf == IF copyOk THEN copied ELSE fresh
             prof == [exec |-> ExecutionCountMap(inf), mem |-> MemoryOperationsMap(inf)]
             outOfBounds == Len(labels) < basicBlocks
         IN  /\ IF counter = NullPtr
                THEN /\ devLog' = <<>>
                     /\ UNCHANGED device
                ELSE /\ devLog' = <<IF copyOk THEN "cudaMemcpy" ELSE "cudaMemcpy failed",
                                    IF device[counter].live THEN "cudaFree"
                                    ELSE "cudaFree failed">>
                     /\ device' = [device EXCEPT ![counter] = FreeBuffer]
             /\ kernelProfile' = prof
             /\ info' = inf
             /\ IF outOfBounds /\ labelRead = "crash"
                THEN /\ instrCall' = Threw("extractResults", "crash")
                     /\ UNCHANGED out
                ELSE /\ instrCall' = OkCall("extractResults")
                     /\ out' = Report(prof)
    /\ UNCHANGED <<kernelName, type, typeAssigned, entries, basicBlocks, labels,
                   threads, threadBlocks, counter, pass, symbol>>

-----------------------------------------------------------------------------
(* The instrumentor: construction and next-state relation.                 *)

\* <<threads, threadBlocks>> of the launches: the small ones and one full warp
LaunchGeometries ==
    ((1..MaxThreads) \X (1..MaxThreadBlocks)) \cup {<<WarpThreads, 1>>}

\* BasicBlockInstrumentor(): only `description` is set; the fields no handler
\* has set yet are indeterminate, the device holds no buffer
InstrConstructed ==
    /\ entries = Uninit
    /\ basicBlocks = Uninit
    /\ counter = Uninit
    /\ labels = <<>>
    /\ pass = NoPass
    /\ kernelProfile = EmptyProfile
    /\ info = <<>>
    /\ out = NoReport
    /\ device = [a \in 1..MaxBuffers |-> FreeBuffer]
    /\ symbol = NullPtr
    /\ devLog = <<>>
    /\ instrCall = NoCall

\* any configuration (a type never assigned holds any value), one launch of one
\* thread block of two threads
InstrInit ==
    /\ kernelName \in KernelNameInputs
    /\ type \in TypeValues
    /\ typeAssigned \in BOOLEAN
    /\ typeAssigned => type \in InstrumentationTypes
    /\ threads = 2 /\ threadBlocks = 1
    /\ InstrConstructed

\* a valid configuration (a kernel of the module, a type of the enumeration),
\* any launch geometry
LayoutInit ==
    /\ kernelName \in DOMAIN ModuleKernels
    /\ type \in InstrumentationTypes
    /\ typeAssigned = TRUE
    /\ \E g \in LaunchGeometries : threads = g[1] /\ threadBlocks = g[2]
    /\ InstrConstructed

\* the instrumentor of a process that uses only the trace generator
InstrIdle ==
    /\ kernelName = "" /\ type = "executionCount" /\ typeAssigned = TRUE
    /\ threads = 1 /\ threadBlocks = 1
    /\ InstrConstructed

\* the handlers in any order, the device failing at any stage; the launches
\* leave a value of its own in every slot
InstrNext ==
    \/ analyze /\ UNCHANGED <<headerVars, traceVars>>
    \/ createPass /\ UNCHANGED <<headerVars, traceVars>>
    \/ initialize /\ UNCHANGED <<headerVars, traceVars>>
    \/ /\ KernelLaunch /\ device'[symbol].data[1] = 0 /\ device'[symbol].data[2] # 0
       /\ UNCHANGED <<headerVars, traceVars>>
    \/ extractResults /\ UNCHANGED <<headerVars, traceVars>>

\* the order the framework calls the handlers in for one launch after the other:
\* analyze, createPass, then initialize, the launch and extractResults, the device
\* calls of initialize succeeding
LayoutNext ==
    \/ analyze /\ labels = <<>> /\ UNCHANGED <<headerVars, traceVars>>
    \/ createPass /\ UNCHANGED <<headerVars, traceVars>>
    \/ /\ initialize /\ FreeAddresses = DOMAIN device /\ instrCall'.result = "ok"
       /\ UNCHANGED <<headerVars, traceVars>>
    \/ KernelLaunch /\ UNCHANGED <<headerVars, traceVars>>
    \/ /\ extractResults /\ counter # NullPtr /\ device[counter].live
       /\ UNCHANGED <<headerVars, traceVars>>


-----------------------------------------------------------------------------
(* Claims about BasicBlockInstrumentor.                                    *)

\* the (block, entry, thread, threadBlock) slots of the current geometry
Slots == (0..(basicBlocks - 1)) \X (0..(entries - 1)) \X (0..(threads - 1))
         \X (0..(threadBlocks - 1))

\* the element extractResults reads for slot s = <<b, e, t, k>>
SlotIndex(s) == CounterIndex(s[1], s[3] * entries + s[2], s[4])

GeometrySet == entries >= 1 /\ basicBlocks >= 1 /\ threads >= 1 /\ threadBlocks >= 1

\* C1: for every geometry with entries, basicBlocks, threadBlocks, threads >= 1 the
\* flattened index is injective over all slots (b, e, t, k), and its values are
\* exactly 0 .. entries*basicBlocks*threadBlocks*threads - 1: no two slots share
\* an element, none lies outside the array, the largest is the last element.
C1_IndexInjective ==
    GeometrySet =>
        LET image == {SlotIndex(s) : s \in Slots}
        IN  /\ Cardinality(image) = Cardinality(Slots)
            /\ \A n \in image : 0 <= n /\ n <= TotalElements - 1
            /\ TotalElements - 1 \in image

C1_Witness ==
    /\ instrCall = OkCall("extractResults")
    /\ entries = 2 /\ basicBlocks = MaxBlocks /\ threads = MaxThreads
    /\ threadBlocks = MaxThreadBlocks
    /\ info # <<>> /\ info[TotalElements] # 0

\* the sum over all (thread, threadBlock) of the entry e of block b in array inf
SlotSum(inf, b, e) ==
    LET pairs == (0..(threads - 1)) \X (0..(threadBlocks - 1))
        val == [q \in pairs |->
                  InfoAt(inf, b * entries * threads
                              + q[2] * basicBlocks * threads * entries
                              + q[1] * entries + e)]
    IN  SumOver(val, pairs)

\* the array of the end-to-end case: block 1 ran once on every thread, 0 and 2 never
OnlyBlockOneRan ==
    /\ basicBlocks = 3 /\ threadBlocks = 1 /\ threads = 32 /\ entries = 1
    /\ Len(info) = 96
    /\ \A n \in 1..96 : info[n] = IF (n - 1) \div 32 = 1 THEN 1 ELSE 0

\* C2: after extractResults, executionCount[b] is the sum over all (t, k) of entry 0
\* of slot (b, t, k) of the raw array; memoryOperations[b] is the sum of entry 1
\* for memoryIntensity, and that map is empty for the other types; with 3 blocks,
\* 1 thread block, 32 threads and only block 1 counted once per thread the counts
\* are 0, 32, 0.
C2_Reduction ==
    instrCall.op = "extractResults" =>
        /\ DOMAIN kernelProfile.exec = 0..(basicBlocks - 1)
        /\ \A b \in 0..(basicBlocks - 1) : kernelProfile.exec[b] = SlotSum(info, b, 0)
        /\ IF type = "memoryIntensity"
           THEN /\ DOMAIN kernelProfile.mem = 0..(basicBlocks - 1)
                /\ \A b \in 0..(basicBlocks - 1) :
                     kernelProfile.mem[b] = SlotSum(info, b, 1)
           ELSE kernelProfile.mem = <<>>
        /\ OnlyBlockOneRan =>
             /\ kernelProfile.exec[0] = 0
             /\ kernelProfile.exec[1] = 32
             /\ kernelProfile.exec[2] = 0

C2_Witness ==
    /\ instrCall = OkCall("extractResults")
    /\ type = "executionCount"
    /\ OnlyBlockOneRan
    /\ kernelProfile.exec[1] = 32

\* C10: a createPass that returns leaves entries = 2 for memoryIntensity and
\* entries = 1 for executionCount and instructionCount, and the pass object holds
\* the same entries; allocation and extraction then use that value.
C10_EntriesPerType ==
    /\ instrCall = OkCall("createPass") =>
         /\ type = "memoryIntensity" => entries = 2
         /\ type \in {"executionCount", "instructionCount"} => entries = 1
         /\ pass.entries = entries
    /\ pass # NoPass =>
         /\ pass.entries = entries
         /\ entries = IF type = "memoryIntensity" THEN 2 ELSE 1
         /\ \A a \in DOMAIN device :
              device[a].live => device[a].len = entries * basicBlocks * threadBlocks * threads

C10_Witness ==
    /\ instrCall = OkCall("createPass")
    /\ type = "memoryIntensity" /\ entries = 2 /\ pass.entries = 2

-----------------------------------------------------------------------------
(* trace::MemoryTraceGenerator::Header                                     *)

\* ir::PTXInstruction::AddressSpace; "Invalid" stands for AddressSpace_Invalid
AddressSpaces == {"Const", "Global", "Local", "Param", "Shared", "Texture", "Invalid"}

\* the format tag of headers, entries and file names
MemoryTraceFormat == 1

\* Header::Header()
NewHeader ==
    [format |-> MemoryTraceFormat, thread_count |-> 0, dynamic_instructions |-> 0, dynamic_operations |-> 0,
     const_accesses |-> 0, global_accesses |-> 0, local_accesses |-> 0,
     param_accesses |-> 0, shared_accesses |-> 0, texture_accesses |-> 0,
     global_min_address |-> Zero64, global_max_address |-> Zero64,
     global_instructions |-> 0, texture_instructions |-> 0,
     global_bytes |-> 0, shared_bytes |-> 0, texture_bytes |-> 0,
     global_words |-> 0, texture_words |-> 0, global_extent |-> 0,
     global_segments |-> 0, halfwarps |-> 0, headerOnly |-> FALSE,
     blockDimX |-> 0, blockDimY |-> 0, blockDimZ |-> 0]

\* (a mutant of HeaderAccess: Global accesses add no bytes)
HeaderAccessNoBytes(h, space, bytes) ==
    CASE space = "Const" -> [h EXCEPT !.const_accesses = @ + 1]
      [] space = "Global" -> [h EXCEPT !.global_accesses = @ + 1,
                                       !.global_instructions = @ + 1]
      [] space = "Local" -> [h EXCEPT !.local_accesses = @ + 1]
      [] space = "Param" -> [h EXCEPT !.param_accesses = @ + 1]
      [] space = "Shared" -> [h EXCEPT !.shared_accesses = @ + 1,
                                       !.shared_bytes = @ + bytes]
      [] space = "Texture" -> [h EXCEPT !.texture_accesses = @ + 1,
                                        !.texture_bytes = @ + bytes,
                                        !.texture_instructions = @ + 1]
      [] OTHER -> h

\* (a mutant of HeaderAccess: the Shared case lacks its break and runs on into
\* the Texture case)
HeaderAccessFallThrough(h, space, bytes) ==
    CASE space = "Const" -> [h EXCEPT !.const_accesses = @ + 1]
      [] space = "Global" -> [h EXCEPT !.global_accesses = @ + 1,
                                       !.global_bytes = @ + bytes,
                                       !.global_instructions = @ + 1]
      [] space = "Local" -> [h EXCEPT !.local_accesses = @ + 1]
      [] space = "Param" -> [h EXCEPT !.param_accesses = @ + 1]
      [] space = "Shared" -> [h EXCEPT !.shared_accesses = @ + 1,
                                       !.shared_bytes = @ + bytes,
                                       !.texture_accesses = @ + 1,
                                       !.texture_bytes = @ + bytes,
                                       !.texture_instructions = @ + 1]
      [] space = "Texture" -> [h EXCEPT !.texture_accesses = @ + 1,
                                        !.texture_bytes = @ + bytes,
                                        !.texture_instructions = @ + 1]
      [] OTHER -> h

\* Header::access(space, bytes)
HeaderAccess(h, space, bytes) ==
    CASE space = "Const" -> [h EXCEPT !.const_accesses = @ + 1]
      [] space = "Global" -> [h EXCEPT !.global_accesses = @ + 1,
                                       !.global_bytes = @ + bytes,
                                       !.global_instructions = @ + 1]
      [] space = "Local" -> [h EXCEPT !.local_accesses = @ + 1]
      [] space = "Param" -> [h EXCEPT !.param_accesses = @ + 1]
      [] space = "Shared" -> [h EXCEPT !.shared_accesses = @ + 1,
                                       !.shared_bytes = @ + bytes]
      [] space = "Texture" -> [h EXCEPT !.texture_accesses = @ + 1,
                                        !.texture_bytes = @ + bytes,
                                        !.texture_instructions = @ + 1]
      [] OTHER -> h

\* the two ifs on global_min_address and global_max_address
MinMaxUpdate(h, addr) ==
    LET lo == IF h.global_min_address = Zero64 \/ Lt64(addr, h.global_min_address)
              THEN addr ELSE h.global_min_address
        hi == IF h.global_max_address = Zero64 \/ Lt64(h.global_max_address, addr)
              THEN addr ELSE h.global_max_address
    IN  [h EXCEPT !.global_min_address = lo, !.global_max_address = hi]

\* Header::address(space, addr)
HeaderAddress(h, space, addr) ==
    CASE space = "Texture" -> [MinMaxUpdate(h, addr) EXCEPT !.texture_words = @ + 1]
      [] space = "Global" -> [MinMaxUpdate(h, addr) EXCEPT !.global_words = @ + 1]
      [] OTHER -> h

-----------------------------------------------------------------------------
(* trace::MemoryTraceGenerator: the values it works on.                    *)

\* the two generators attached to a kernel
Generators == {1, 2}

\* name.size() > 20
NameLimit == 20
\* the generator's database field, and the directory it names
DatabasePath == <<"/", "t", "/", "d", "b">>

Digits == <<"0", "1", "2", "3", "4", "5", "6", "7", "8", "9">>
RECURSIVE ToDecimal(_)
\* operator<< of a stringstream on an unsigned number
ToDecimal(n) == IF n < 10 THEN <<Digits[n + 1]>>
                ELSE ToDecimal(n \div 10) \o <<Digits[(n % 10) + 1]>>

\* name.resize(20) when the name is longer
Truncate(name) == IF Len(name) > NameLimit THEN SubSeq(name, 1, NameLimit) ELSE name

RECURSIVE LastSlash(_, _)
LastSlash(p, i) == IF i = 0 \/ p[i] = "/" THEN i ELSE LastSlash(p, i - 1)
\* boost::filesystem::path::parent_path
ParentPath(p) == SubSeq(p, 1, LastSlash(p, Len(p)) - 1)
\* path /= file, then system_complete of a path that is absolute already
PathIn(dir, file) == dir \o <<"/">> \o file

\* (a mutant of SessionStem: the counter is left out)
SessionStemNoCount(format, count) == ToDecimal(format)

\* stream << _entry.format << "_" << _counter++
SessionStem(format, count) == ToDecimal(format) \o <<"_">> \o ToDecimal(count)
TracePath(db, name, format, count) ==
    PathIn(ParentPath(db),
           Truncate(name) \o <<"_">> \o SessionStem(format, count)
                          \o <<".", "t", "r", "a", "c", "e">>)
HeaderPath(db, name, format, count) ==
    PathIn(ParentPath(db),
           Truncate(name) \o <<"_">> \o SessionStem(format, count)
                          \o <<".", "h", "e", "a", "d", "e", "r">>)

\* ---- the allocation tables of the kernel's context ----
\* an allocation: its base pointer, its size, and the address after its last byte
Allocation(base, size) ==
    [ptr |-> U64(base), size |-> size, end |-> Add64(U64(base), U64(size))]
GlobalAllocations == {Allocation(256, 16)}
\* the allocations of the selected device; the one at 258 lies inside the global
\* allocation, so that an address can hit in both tables
DeviceAllocations == {Allocation(512, 32), Allocation(1, 8), Allocation(258, 4)}
NoAllocation == [ptr |-> Zero64, size |-> 0, end |-> Zero64]

\* ptr <= addr < ptr + size
Within(addr, a) == ~Lt64(addr, a.ptr) /\ Lt64(addr, a.end)
LookUp(table, addr) ==
    IF \E a \in table : Within(addr, a)
    THEN CHOOSE a \in table : Within(addr, a)
    ELSE NoAllocation
\* Executive::getGlobalMemoryAllocation: space is AddressSpace_Invalid on a miss
getGlobalMemoryAllocation(addr) == LookUp(GlobalAllocations, addr)
\* Executive::getMemoryAllocation on the selected device: isa is Unknown on a miss
getMemoryAllocation(addr) == LookUp(DeviceAllocations, addr)

\* ---- extent(kernel) ----
\* the bytes of one element of a parameter of the type (0: no case of the switch)
TypeBytes(t) ==
    CASE t \in {"b8", "s8", "u8"} -> 1
      [] t \in {"b16", "s16", "u16"} -> 2
      [] t \in {"b32", "s32", "u32"} -> 4
      [] t \in {"b64", "s64", "u64"} -> 8
      [] OTHER -> 0

\* (a mutant of ShiftIn: the address is not shifted, the element replaces its
\* low bytes)
ShiftInNoShift(address, element, n) ==
    [i \in 1..8 |-> IF i + n <= 8 THEN address[i] ELSE element[i + n - 8]]

\* address <<= 8 n; address |= element (the n bytes of the element)
ShiftIn(address, element, n) ==
    [i \in 1..8 |-> IF i + n <= 8 THEN address[i + n] ELSE element[i + n - 8]]

\* the switch on parameter->type
Accumulate(address, t, element) ==
    IF TypeBytes(t) = 0 THEN address
    ELSE IF TypeBytes(t) = 8 THEN element
    ELSE ShiftIn(address, element, TypeBytes(t))

\* (a mutant of CountAllocation: every hit adds the size)
CountAllocationAlways(st, address, a) ==
    [address |-> address,
     encountered |-> st.encountered \cup {a.ptr},
     extent |-> st.extent + a.size]

\* if (encountered.insert(ptr).second) extent += size
CountAllocation(st, address, a) ==
    [address |-> address,
     encountered |-> st.encountered \cup {a.ptr},
     extent |-> IF a.ptr \in st.encountered THEN st.extent ELSE st.extent + a.size]

\* the body of the loop over the elements of a parameter
ElementStep(st, t, element) ==
    LET address == Accumulate(st.address, t, element)
        global == getGlobalMemoryAllocation(address)
        allocation == getMemoryAllocation(address)
    IN  IF global # NoAllocation THEN CountAllocation(st, address, global)
        ELSE IF allocation # NoAllocation THEN CountAllocation(st, address, allocation)
        ELSE [st EXCEPT !.address = address]

RECURSIVE ElementLoop(_, _, _)
ElementLoop(st, parameter, e) ==
    IF e > Len(parameter.arrayValues) THEN st
    ELSE ElementLoop(ElementStep(st, parameter.type, parameter.arrayValues[e]),
                     parameter, e + 1)

RECURSIVE ParameterLoop(_, _, _)
\* ir::PTXU64 address = 0 at the head of every parameter
ParameterLoop(st, parameters, p) ==
    IF p > Len(parameters) THEN st
    ELSE ParameterLoop(ElementLoop([st EXCEPT !.address = Zero64], parameters[p], 1),
                       parameters, p + 1)

extent(kernel) ==
    ParameterLoop([address |-> Zero64, encountered |-> {}, extent |-> 0],
                  kernel.parameters, 1).extent

\* ---- trace events ----
RECURSIVE SkipInactive(_, _, _)
\* for (; threadID < thread_count && !event.active[threadID]; threadID++) { }
SkipInactive(active, thread_count, threadID) ==
    IF threadID < thread_count /\ threadID \notin active
    THEN SkipInactive(active, thread_count, threadID + 1)
    ELSE threadID

\* (a mutant of Copies: a texture fetch pushes one Access as a load does)
CopiesOne(access, isTex) == <<access>>

\* one Access pushed for a load or store, four for a texture fetch
Copies(access, isTex) == IF isTex THEN <<access, access, access, access>> ELSE <<access>>

RECURSIVE LaneLoop(_, _, _, _, _, _, _, _, _, _)
\* the loop over event.memory_addresses of one traced instruction
LaneLoop(h, ev, headerOnly, isTex, space, i, threadID, starting_address, bytes, accesses) ==
    IF i > Len(ev.memory_addresses)
    THEN [header |-> h, bytes |-> bytes, accesses |-> accesses]
    ELSE LET tid == IF headerOnly THEN threadID
                    ELSE SkipInactive(ev.active, h.thread_count, threadID)
             addr == ev.memory_addresses[i]
             size == ev.memory_sizes[i]
             access == [address |-> addr, threadID |-> tid, size |-> size]
             h1 == HeaderAddress(h, space, addr)
             past == tid > (h.thread_count \div 2)
             counted == past \/ starting_address # addr
             h2 == [h1 EXCEPT !.global_segments = IF counted THEN @ + 1 ELSE @,
                              !.halfwarps = IF past THEN @ + 1 ELSE @]
         IN  LaneLoop(h2, ev, headerOnly, isTex, space, i + 1, tid + 1,
                      IF counted THEN Add64(addr, U64(size)) ELSE starting_address,
                      bytes + size,
                      IF headerOnly THEN accesses ELSE accesses \o Copies(access, isTex))

\* Event::Event() leaves the scalar members unassigned
NewEvent ==
    [PC |-> "unassigned", opcode |-> "unassigned", addressSpace |-> "unassigned",
     ctaX |-> "unassigned", ctaY |-> "unassigned", ctaZ |-> "unassigned",
     accesses |-> <<>>]

\* what a write through an archive pointer that is not live can do
StaleOutcomes == {"crash", "ok"}

\* MemoryTraceGenerator::event on the generator G writing to the files F
EventOn(G, F, ev, stale) ==
    LET h0 == [G._header EXCEPT !.dynamic_instructions = @ + 1,
                                !.dynamic_operations = @ + Cardinality(ev.active)]
        isTex == ev.opcode = "Tex"
        space == IF isTex THEN "Texture" ELSE ev.addressSpace
        loop == LaneLoop(h0, ev, G.headerOnly, isTex, space, 1, 0, MaxU64, 0, <<>>)
        h1 == HeaderAccess(loop.header, space, loop.bytes)
        e1 == [PC |-> ev.PC, opcode |-> ev.opcode, addressSpace |-> space,
               ctaX |-> ev.blockId[1], ctaY |-> ev.blockId[2], ctaZ |-> ev.blockId[3],
               accesses |-> loop.accesses]
    IN  IF ev.opcode \notin {"Ld", "St", "Tex"}
        THEN [gen |-> [G EXCEPT !._header = h0], files |-> F, result |-> "ok"]
        ELSE IF G.headerOnly
        THEN [gen |-> [G EXCEPT !._header = h1], files |-> F, result |-> "ok"]
        ELSE IF G._archive = "live"
        THEN [gen |-> [G EXCEPT !._header = h1, !._event = e1],
              files |-> [F EXCEPT ![G._file.path] = Append(@, e1)],
              result |-> "ok"]
        ELSE [gen |-> [G EXCEPT !._header = h1, !._event = e1], files |-> F,
              result |-> stale]

\* ---- the inputs: kernels and the events they raise ----
ThreadCounts == {4, 8}

\* the active masks: the first k lanes, the last lane, the first and the last
LaneMasks(T) == {0..(k - 1) : k \in 0..T} \cup {{T - 1}, {0, T - 1}}

RECURSIVE AddressRun(_, _, _)
\* n lane addresses: 4 bytes each, contiguous but for a jump before lane gapAt
AddressRun(first, gapAt, n) ==
    IF n = 0 THEN <<>>
    ELSE IF n = 1 THEN <<first>>
    ELSE LET run == AddressRun(first, gapAt, n - 1)
             next == Add64(run[n - 1], U64(4))
         IN  Append(run, IF n = gapAt THEN Add64(next, U64(92)) ELSE next)

MemoryKinds ==
    {[opcode |-> "Ld", space |-> "Global"], [opcode |-> "St", space |-> "Shared"],
     [opcode |-> "Tex", space |-> "Global"]}

MemoryEvents(T) ==
    {[PC |-> 1, opcode |-> k.opcode, addressSpace |-> k.space, blockId |-> <<0, 0, 0>>,
      active |-> m,
      memory_addresses |-> AddressRun(first, gapAt, Cardinality(m)),
      memory_sizes |-> [i \in 1..Cardinality(m) |-> 4]] :
        k \in MemoryKinds, m \in LaneMasks(T), first \in {U64(0), U64(256)},
        gapAt \in {0, 3}}

OtherEvents(T) ==
    {[PC |-> 2, opcode |-> "Add", addressSpace |-> "Invalid", blockId |-> <<0, 0, 0>>,
      active |-> 0..(T - 1), memory_addresses |-> <<>>, memory_sizes |-> <<>>]}

\* the events a kernel of T threads raises
TraceEvents == [T \in ThreadCounts |-> MemoryEvents(T) \cup OtherEvents(T)]

\* a kernel as initialize reads it
Kernel(name, T, parameters) ==
    [name |-> name, modulePath |-> <<"m">>, blockDim |-> <<T, 1, 1>>,
     maxThreadsPerBlock |-> T, parameters |-> parameters]

PointerParameter == [type |-> "u64", arrayValues |-> <<U64(256)>>]

-----------------------------------------------------------------------------
(* trace::MemoryTraceGenerator: the generators and their handlers.         *)

\* _file: the null pointer, or a stream on a path that is open or failed to open
NullFile == [null |-> TRUE, path |-> <<>>, isOpen |-> FALSE]
Stream(path, isOpen) == [null |-> FALSE, path |-> path, isOpen |-> isOpen]

\* TraceEntry() before the first initialize
NoEntry == [name |-> <<>>, module |-> <<>>, format |-> 0, path |-> <<>>, header |-> <<>>]

\* MemoryTraceGenerator::MemoryTraceGenerator(): _file = 0, headerOnly = false;
\* _archive is not assigned; headerOnly is a public field the owner sets
NewGenerator(headerOnly) ==
    [headerOnly |-> headerOnly, database |-> DatabasePath,
     _file |-> NullFile, _archive |-> "unassigned",
     _entry |-> NoEntry, _header |-> NewHeader, _event |-> NewEvent]

NoTraceCall == [op |-> "none", generator |-> 0, arg |-> "none", result |-> "ok"]
TraceCall(op, g, arg, result) == [op |-> op, generator |-> g, arg |-> arg, result |-> result]

\* the process ended in a handler of a generator
TraceCrashed == traceCall.result = "crash"

\* a full generator and a header-only generator, nothing traced yet
TraceInit ==
    /\ _counter = 0
    /\ gen = [g \in Generators |-> NewGenerator(g = 2)]
    /\ files = <<>>
    /\ traceDatabase = <<>>
    /\ initLog = <<>>
    /\ traceCall = NoTraceCall

\* std::ofstream(path) that opens: the file is created, or cut to nothing
Opened(F, path) == (path :> <<>>) @@ F
\* a file opened, written once and closed
Written(F, path, record) == (path :> <<record>>) @@ F

\* (a mutant of SessionHeader: the header of the generator is not replaced by
\* Header() before the session values are stored)
SessionHeaderStale(G, kernel) ==
    [G._header EXCEPT !.blockDimX = kernel.blockDim[1],
                      !.blockDimY = kernel.blockDim[2],
                      !.blockDimZ = kernel.blockDim[3],
                      !.thread_count = kernel.maxThreadsPerBlock,
                      !.headerOnly = G.headerOnly,
                      !.global_extent = extent(kernel)]

\* _header = Header() and the six assignments that follow it in initialize
SessionHeader(G, kernel) ==
    [NewHeader EXCEPT !.blockDimX = kernel.blockDim[1],
                      !.blockDimY = kernel.blockDim[2],
                      !.blockDimZ = kernel.blockDim[3],
                      !.thread_count = kernel.maxThreadsPerBlock,
                      !.headerOnly = G.headerOnly,
                      !.global_extent = extent(kernel)]

\* MemoryTraceGenerator::initialize(kernel) on generator g
genInitialize(g, kernel) ==
    LET G == gen[g]
        entry == [name |-> kernel.name, module |-> kernel.modulePath,
                  format |-> MemoryTraceFormat,
                  path |-> TracePath(G.database, kernel.name, MemoryTraceFormat, _counter),
                  header |-> HeaderPath(G.database, kernel.name, MemoryTraceFormat, _counter)]
        \* delete _archive of a pointer that is not live
        staleDelete == ~G._file.null /\ G._archive # "live"
        released == IF ~G._file.null THEN "deleted" ELSE G._archive
        fresh == SessionHeader(G, kernel)
    IN  /\ ~TraceCrashed
        /\ _counter < MaxSessions
        /\ _counter' = _counter + 1
        /\ initLog' = Append(initLog, [generator |-> g, path |-> entry.path,
                                       header |-> entry.header, count |-> _counter])
        /\ traceDatabase' = traceDatabase
        /\ \E opens \in BOOLEAN, stale \in IF staleDelete THEN StaleOutcomes ELSE {"ok"} :
             IF stale = "crash"
             THEN /\ gen' = [gen EXCEPT ![g]._entry = entry]
                  /\ files' = files
                  /\ traceCall' = TraceCall("initialize", g, kernel, "crash")
             ELSE IF ~opens
             THEN /\ gen' = [gen EXCEPT ![g]._entry = entry,
                                        ![g]._archive = released,
                                        ![g]._file = Stream(entry.path, FALSE)]
                  /\ files' = files
                  /\ traceCall' = TraceCall("initialize", g, kernel, "throw")
             ELSE /\ gen' = [gen EXCEPT ![g]._entry = entry,
                                        ![g]._archive = "live",
                                        ![g]._file = Stream(entry.path, TRUE),
                                        ![g]._event = NewEvent,
                                        ![g]._header = fresh]
                  /\ files' = Opened(files, entry.path)
                  /\ traceCall' = TraceCall("initialize", g, kernel, "ok")

\* MemoryTraceGenerator::event(event) on generator g
genEvent(g, ev) ==
    /\ ~TraceCrashed
    /\ \E stale \in IF gen[g].headerOnly \/ gen[g]._archive = "live"
                       \/ ev.opcode \notin {"Ld", "St", "Tex"}
                    THEN {"ok"} ELSE StaleOutcomes :
         LET r == EventOn(gen[g], files, ev, stale)
         IN  /\ gen' = [gen EXCEPT ![g] = r.gen]
             /\ files' = r.files
             /\ traceCall' = TraceCall("event", g, ev, r.result)
    /\ UNCHANGED <<_counter, traceDatabase, initLog>>

\* ExecutableKernel::traceEvent(event): every generator of the kernel, in order
traceEvent(ev) ==
    /\ ~TraceCrashed
    /\ LET r1 == EventOn(gen[1], files, ev, "ok")
           r2 == EventOn(gen[2], r1.files, ev, "ok")
       IN  /\ gen' = [g \in Generators |-> IF g = 1 THEN r1.gen ELSE r2.gen]
           /\ files' = r2.files
           /\ traceCall' = TraceCall("traceEvent", 0, ev, "ok")
    /\ UNCHANGED <<_counter, traceDatabase, initLog>>

\* (a mutant of genFinish: _file keeps its value)
genFinishKeepsFile(g) ==
    LET G == gen[g]
    IN  /\ ~TraceCrashed
        /\ UNCHANGED <<_counter, initLog>>
        /\ IF G._file.null
           THEN /\ UNCHANGED <<gen, files, traceDatabase>>
                /\ traceCall' = TraceCall("finish", g, "none", "ok")
           ELSE /\ traceDatabase' = Append(traceDatabase, G._entry)
                /\ \E hopens \in BOOLEAN,
                      stale \in IF G._archive # "live" THEN StaleOutcomes ELSE {"ok"} :
                     IF stale = "crash"
                     THEN /\ UNCHANGED <<gen, files>>
                          /\ traceCall' = TraceCall("finish", g, "none", "crash")
                     ELSE /\ gen' = [gen EXCEPT ![g]._archive = "deleted"]
                          /\ files' = IF hopens THEN Written(files, G._entry.header,
                                                             G._header)
                                      ELSE files
                          /\ traceCall' = TraceCall("finish", g, "none",
                                                    IF hopens THEN "ok" ELSE "throw")

\* MemoryTraceGenerator::finish() on generator g
genFinish(g) ==
    LET G == gen[g]
    IN  /\ ~TraceCrashed
        /\ UNCHANGED <<_counter, initLog>>
        /\ IF G._file.null
           THEN /\ UNCHANGED <<gen, files, traceDatabase>>
                /\ traceCall' = TraceCall("finish", g, "none", "ok")
           ELSE /\ traceDatabase' = Append(traceDatabase, G._entry)
                /\ \E hopens \in BOOLEAN,
                      stale \in IF G._archive # "live" THEN StaleOutcomes ELSE {"ok"} :
                     IF stale = "crash"
                     THEN /\ UNCHANGED <<gen, files>>
                          /\ traceCall' = TraceCall("finish", g, "none", "crash")
                     ELSE /\ gen' = [gen EXCEPT ![g]._archive = "deleted",
                                                ![g]._file = NullFile]
                          /\ files' = IF hopens THEN Written(files, G._entry.header,
                                                             G._header)
                                      ELSE files
                          /\ traceCall' = TraceCall("finish", g, "none",
                                                    IF hopens THEN "ok" ELSE "throw")

-----------------------------------------------------------------------------
(* The kernels and events the generators are driven with.                  *)

NamePrefix == [i \in 1..NameLimit |-> "k"]
\* two kernels whose names differ after the first 20 characters
LongNames == {NamePrefix \o <<"a">>, NamePrefix \o <<"b">>}

TraceKernels == {Kernel(n, 4, <<PointerParameter>>) : n \in LongNames}
PairKernels == {Kernel(<<"k">>, T, <<PointerParameter>>) : T \in ThreadCounts}

\* the sequences over S of 1..n elements
RECURSIVE SeqsUpTo(_, _)
SeqsUpTo(S, n) == IF n = 0 THEN {} ELSE SeqsUpTo(S, n - 1) \cup [1..n -> S]

\* three 32-bit elements: the third shifts the first out of the 64 bits
OverflowParameter ==
    [type |-> "b32", arrayValues |-> <<<<0, 0, 2, 0>>, <<0, 0, 0, 0>>, <<0, 0, 2, 0>>>>]

ParameterChoices ==
    {[type |-> "u8", arrayValues |-> v] : v \in SeqsUpTo({<<1>>, <<2>>}, MaxElements)}
    \cup {[type |-> "s16", arrayValues |-> v] : v \in SeqsUpTo({<<2, 4>>}, MaxElements)}
    \cup {[type |-> "b32", arrayValues |-> v] : v \in SeqsUpTo({<<0, 0, 1, 0>>}, MaxElements)}
    \cup {[type |-> "u64", arrayValues |-> v] :
            v \in SeqsUpTo({U64(256), U64(520)}, MaxElements)}
    \cup {[type |-> "f32", arrayValues |-> <<<<0, 0, 0, 0>>>>]}
    \cup {OverflowParameter}

ExtentKernels ==
    {Kernel(<<"k">>, 4, ps) : ps \in {<<>>} \cup SeqsUpTo(ParameterChoices, MaxParameters)}

\* a load by the first two lanes
LifecycleEvents ==
    {e \in TraceEvents[4] :
        /\ e.opcode = "Ld"
        /\ e.opcode = "Ld" => e.active = {0, 1} /\ e.memory_addresses[1] = Zero64}

\* the handlers of one generator in any order, files failing to open
SessionNext ==
    \/ \E kernel \in TraceKernels :
         genInitialize(1, kernel) /\ UNCHANGED <<instrVars, headerVars>>
    \/ \E ev \in LifecycleEvents :
         /\ gen[1]._header.dynamic_instructions < MaxTraceEvents
         /\ genEvent(1, ev) /\ UNCHANGED <<instrVars, headerVars>>
    \/ genFinish(1) /\ UNCHANGED <<instrVars, headerVars>>

\* sessions opened and closed on both generators in any order, files failing
\* to open
TraceNext ==
    \/ \E g \in Generators, kernel \in TraceKernels :
         genInitialize(g, kernel) /\ UNCHANGED <<instrVars, headerVars>>
    \/ \E g \in Generators :
         genFinish(g) /\ UNCHANGED <<instrVars, headerVars>>

\* one kernel traced by both generators: initialize on each, the events of the
\* kernel to both, finish on each; every file opens
PairNext ==
    \/ \E g \in Generators, kernel \in PairKernels :
         /\ _counter = g - 1
         /\ g = 2 => kernel.maxThreadsPerBlock = gen[1]._header.thread_count
         /\ genInitialize(g, kernel) /\ traceCall'.result = "ok"
         /\ UNCHANGED <<instrVars, headerVars>>
    \/ /\ \A g \in Generators : gen[g]._archive = "live"
       /\ gen[1]._header.dynamic_instructions < MaxPairEvents
       /\ \E ev \in TraceEvents[gen[1]._header.thread_count] : traceEvent(ev)
       /\ UNCHANGED <<instrVars, headerVars>>
    \/ \E g \in Generators :
         /\ ~gen[g]._file.null
         /\ _counter = Cardinality(Generators)
         /\ g = 2 => gen[1]._file.null
         /\ genFinish(g) /\ traceCall'.result = "ok"
         /\ UNCHANGED <<instrVars, headerVars>>

\* the events of a four-thread kernel whose lanes start at address 0
LogEvents ==
    {e \in TraceEvents[4] :
        e.memory_addresses # <<>> => e.memory_addresses[1] = Zero64}

\* one session of the full generator: initialize, the events of the kernel while
\* the session is open, finish; every file opens
LogNext ==
    \/ /\ _counter = 0
       /\ genInitialize(1, Kernel(<<"k">>, 4, <<PointerParameter>>))
       /\ traceCall'.result = "ok"
       /\ UNCHANGED <<instrVars, headerVars>>
    \/ /\ gen[1]._archive = "live"
       /\ gen[1]._header.dynamic_instructions < MaxLogEvents
       /\ \E ev \in LogEvents : genEvent(1, ev)
       /\ UNCHANGED <<instrVars, headerVars>>
    \/ /\ ~gen[1]._file.null
       /\ genFinish(1) /\ traceCall'.result = "ok"
       /\ UNCHANGED <<instrVars, headerVars>>

\* one session of one generator on any kernel
ExtentNext ==
    \/ /\ _counter = 0
       /\ \E kernel \in ExtentKernels :
            genInitialize(1, kernel) /\ traceCall'.result = "ok"
       /\ UNCHANGED <<instrVars, headerVars>>
    \/ /\ ~gen[1]._file.null
       /\ genFinish(1) /\ traceCall'.result = "ok"
       /\ UNCHANGED <<instrVars, headerVars>>

-----------------------------------------------------------------------------
(* A Header object called directly.                                        *)

HeaderAddrs == {Zero64, U64(50), U64(100), U64(200), MaxU64}
HeaderBytes == {4, 8}

NoHeaderArgs ==
    [addresses |-> {}, calls |-> 0,
     accesses |-> [sp \in AddressSpaces |-> [calls |-> 0, bytes |-> 0]]]

HeaderInit == header = NewHeader /\ headerArgs = NoHeaderArgs

CallAccess(space, bytes) ==
    /\ headerArgs.calls < MaxHeaderCalls
    /\ header' = HeaderAccess(header, space, bytes)
    /\ headerArgs' = [headerArgs EXCEPT
                        !.calls = @ + 1,
                        !.accesses[space] = [calls |-> @.calls + 1,
                                             bytes |-> @.bytes + bytes]]

CallAddress(space, addr) ==
    /\ headerArgs.calls < MaxHeaderCalls
    /\ header' = HeaderAddress(header, space, addr)
    /\ headerArgs' = [headerArgs EXCEPT
                        !.calls = @ + 1,
                        !.addresses = IF space \in {"Global", "Texture"}
                                      THEN @ \cup {addr} ELSE @]

HeaderNext ==
    \/ \E space \in AddressSpaces, bytes \in HeaderBytes :
         CallAccess(space, bytes) /\ UNCHANGED <<instrVars, traceVars>>
    \/ \E space \in AddressSpaces, addr \in HeaderAddrs :
         CallAddress(space, addr) /\ UNCHANGED <<instrVars, traceVars>>

-----------------------------------------------------------------------------
(* Specifications.                                                         *)

\* every object constructed, the instrumentor in any configuration
InstrStart == InstrInit /\ HeaderInit /\ TraceInit
\* every object constructed, the instrumentor configured for any launch
LayoutStart == LayoutInit /\ HeaderInit /\ TraceInit
\* every object constructed
Constructed == InstrIdle /\ HeaderInit /\ TraceInit

SpecInstr == InstrStart /\ [][InstrNext]_vars
SpecLayout == LayoutStart /\ [][LayoutNext]_vars
SpecHeader == Constructed /\ [][HeaderNext]_vars
SpecTrace == Constructed /\ [][TraceNext]_vars
SpecSession == Constructed /\ [][SessionNext]_vars
SpecPair == Constructed /\ [][PairNext]_vars
SpecExtent == Constructed /\ [][ExtentNext]_vars
SpecLog == Constructed /\ [][LogNext]_vars

-----------------------------------------------------------------------------
(* Claims about Header.                                                    *)

\* the smallest and the largest of a non-empty set of PTXU64 values
Least64(S) == CHOOSE a \in S : \A b \in S : a = b \/ Lt64(a, b)
Greatest64(S) == CHOOSE a \in S : \A b \in S : a = b \/ Lt64(b, a)

\* C3 (as claimed): after any Global/Texture address calls, with any 64-bit
\* addresses, global_min_address is the smallest and global_max_address the
\* largest address passed so far, and both are zero before the first call.
C3_MinMaxOfAllPassed ==
    IF headerArgs.addresses = {}
    THEN header.global_min_address = Zero64 /\ header.global_max_address = Zero64
    ELSE /\ header.global_min_address = Least64(headerArgs.addresses)
         /\ header.global_max_address = Greatest64(headerArgs.addresses)

\* zero was passed, then a larger address: the minimum is no longer zero
C3_Witness ==
    /\ Zero64 \in headerArgs.addresses
    /\ header.global_min_address # Zero64
    /\ header.global_max_address = Greatest64(headerArgs.addresses)

\* C9: access is additive: after n calls access(Global, b_1..b_n) the header holds
\* n global accesses, b_1+...+b_n global bytes and n global instructions (3, 12, 3
\* after three calls with 4 bytes); the same for Texture; the Global and Texture
\* totals do not affect each other.
C9_AccessAdditive ==
    LET g == headerArgs.accesses["Global"]
        t == headerArgs.accesses["Texture"]
    IN  /\ header.global_accesses = g.calls
        /\ header.global_bytes = g.bytes
        /\ header.global_instructions = g.calls
        /\ header.texture_accesses = t.calls
        /\ header.texture_bytes = t.bytes
        /\ header.texture_instructions = t.calls
        /\ (g.calls = 3 /\ g.bytes = 12) =>
             /\ header.global_accesses = 3
             /\ header.global_bytes = 12
             /\ header.global_instructions = 3

C9_Witness ==
    /\ headerArgs.accesses["Global"] = [calls |-> 3, bytes |-> 12]
    /\ header.global_accesses = 3 /\ header.global_bytes = 12
    /\ header.global_instructions = 3 /\ header.texture_accesses = 0

-----------------------------------------------------------------------------
(* Claims about the coalescing count and the header-only mode.             *)

\* the lanes i > 0 whose address is not address[i-1] + size[i-1]
Discontinuities(ev) ==
    Cardinality({i \in 2..Len(ev.memory_addresses) :
                   ev.memory_addresses[i]
                     # Add64(ev.memory_addresses[i - 1], U64(ev.memory_sizes[i - 1]))})

\* every active lane is at a position that does not exceed thread_count / 2
InFirstHalfWarp(ev, thread_count) == \A lane \in ev.active : lane <= thread_count \div 2

\* C4 (as claimed): a load or store whose lanes all stay inside the first
\* half-warp adds to global_segments exactly 1 plus the number of lanes i > 0
\* whose address differs from address[i-1] + size[i-1].
C4_SegmentsPerInstruction ==
    [][(/\ traceCall'.op = "traceEvent"
        /\ traceCall'.arg.opcode \in {"Ld", "St"}
        /\ Len(traceCall'.arg.memory_addresses) > 0
        /\ InFirstHalfWarp(traceCall'.arg, gen[1]._header.thread_count))
       => gen'[1]._header.global_segments
            = gen[1]._header.global_segments + 1 + Discontinuities(traceCall'.arg)]_vars

\* lanes 0..3 of a kernel of 8 threads load [0, 4, 8, 12], 4 bytes each, as the
\* first instruction: two segments are counted
C4_Witness ==
    /\ traceCall.op = "traceEvent"
    /\ traceCall.arg.opcode = "Ld"
    /\ traceCall.arg.active = 0..3
    /\ traceCall.arg.memory_addresses = <<U64(0), U64(4), U64(8), U64(12)>>
    /\ gen[1]._header.thread_count = 8
    /\ gen[1]._header.dynamic_instructions = 1
    /\ gen[1]._header.global_segments = 2

\* a Header but for its headerOnly flag
HeaderFields(h) == [h EXCEPT !.headerOnly = FALSE]

\* C5 (as claimed): fed the same events, the header-only generator holds the same
\* Header as the full generator, field for field but for the headerOnly flag,
\* and it appends no Access and serializes no Event.
C5_HeaderOnlyEqualsFull ==
    _counter = Cardinality(Generators) =>
        /\ HeaderFields(gen[2]._header) = HeaderFields(gen[1]._header)
        /\ gen[2]._event.accesses = <<>>
        /\ files[gen[2]._entry.path] = <<>>

\* after one load by lanes 0 and 3 of 4 the two headers differ in global_segments
\* or halfwarps, and in nothing else
C5_Witness ==
    /\ traceCall.op = "traceEvent"
    /\ traceCall.arg.active = {0, 3}
    /\ gen[1]._header.thread_count = 4
    /\ gen[1]._header.halfwarps # gen[2]._header.halfwarps
    /\ [HeaderFields(gen[2]._header) EXCEPT !.halfwarps = 0, !.global_segments = 0]
         = [HeaderFields(gen[1]._header) EXCEPT !.halfwarps = 0, !.global_segments = 0]
    /\ files[gen[2]._entry.path] = <<>>
    /\ files[gen[1]._entry.path] # <<>>

-----------------------------------------------------------------------------
(* Claims about the extent.                                                *)

RECURSIVE CandidateAt(_, _)
\* the candidate address after element j of the parameter
CandidateAt(parameter, j) ==
    IF j = 0 THEN Zero64
    ELSE Accumulate(CandidateAt(parameter, j - 1), parameter.type, parameter.arrayValues[j])

\* the positions <<parameter, element>> of a kernel
Positions(kernel) ==
    UNION {{<<p, j>> : j \in 1..Len(kernel.parameters[p].arrayValues)} :
             p \in DOMAIN kernel.parameters}

\* the allocation the candidate at the position hits, in the global table or else
\* in the table of the device (NoAllocation if it hits none)
HitAt(kernel, pos) ==
    LET address == CandidateAt(kernel.parameters[pos[1]], pos[2])
    IN  IF getGlobalMemoryAllocation(address) # NoAllocation
        THEN getGlobalMemoryAllocation(address)
        ELSE getMemoryAllocation(address)

\* the base pointers of the allocations hit by any candidate of the kernel
IdentitiesHit(kernel) ==
    {HitAt(kernel, pos).ptr : pos \in {q \in Positions(kernel) : HitAt(kernel, q) # NoAllocation}}

SizeOf(ptr) == (CHOOSE a \in GlobalAllocations \cup DeviceAllocations : a.ptr = ptr).size

\* C6: the extent a session starts with is the sum of the sizes of the distinct
\* allocations (base pointers) hit by any candidate address of any parameter: an
\* allocation hit more than once counts once, an element that hits none adds nothing.
C6_ExtentSumsDistinct ==
    (traceCall.op = "initialize" /\ traceCall.result = "ok") =>
        LET hit == IdentitiesHit(traceCall.arg)
        IN  gen[traceCall.generator]._header.global_extent
              = SumOver([ptr \in hit |-> SizeOf(ptr)], hit)

\* a kernel with an allocation hit from two parameters, an element that hits
\* nothing, a hit in the global table and a hit in the table of the device
C6_Witness ==
    /\ traceCall.op = "initialize" /\ traceCall.result = "ok"
    /\ LET kernel == traceCall.arg
       IN  /\ \E p, q \in Positions(kernel) :
                /\ p[1] # q[1]
                /\ HitAt(kernel, p) = HitAt(kernel, q)
                /\ HitAt(kernel, p) \in DeviceAllocations
           /\ \E p \in Positions(kernel) : HitAt(kernel, p) = NoAllocation
           /\ \E p \in Positions(kernel) : HitAt(kernel, p) \in GlobalAllocations
           /\ gen[1]._header.global_extent = 48

-----------------------------------------------------------------------------
(* Claims about the sessions of a generator.                               *)

\* the path of a header artifact
IsHeaderPath(p) == Len(p) > 0 /\ p[Len(p)] = "r"

\* the header artifacts and what was written to them
HeaderFiles(F) == [p \in {q \in DOMAIN F : IsHeaderPath(q)} |-> F[p]]

\* a finish that finds no open session changes nothing; every other handler
\* registers nothing and writes no header
FinishFrame ==
    /\ (traceCall'.op = "finish" /\ gen[1]._file.null) =>
          /\ gen' = gen /\ files' = files
          /\ traceDatabase' = traceDatabase /\ _counter' = _counter
    /\ traceCall'.op # "finish" =>
          /\ traceDatabase' = traceDatabase
          /\ HeaderFiles(files') = HeaderFiles(files)

\* C7 (as claimed): finish is idempotent, and a finish that closes a session
\* opened by initialize registers the entry once and writes the header once.
C7_FinishOnce ==
    [][/\ FinishFrame
       /\ (traceCall'.op = "finish" /\ ~gen[1]._file.null /\ gen[1]._archive = "live") =>
             /\ traceDatabase' = Append(traceDatabase, gen[1]._entry)
             /\ gen'[1]._file.null
             /\ files' = Written(files, gen[1]._entry.header, gen[1]._header)]_vars

\* C7 (amended): finish is idempotent, and a finish that closes a session opened
\* by initialize registers the entry once and writes the header at most once:
\* once when the header artifact opens, not at all when it does not (finish then
\* throws, the entry registered and the session closed).
C7_FinishOnceUnlessHeaderFails ==
    [][/\ FinishFrame
       /\ (traceCall'.op = "finish" /\ ~gen[1]._file.null /\ gen[1]._archive = "live") =>
             /\ traceDatabase' = Append(traceDatabase, gen[1]._entry)
             /\ gen'[1]._file.null
             /\ traceCall'.result \in {"ok", "throw"}
             /\ files' = IF traceCall'.result = "ok"
                         THEN Written(files, gen[1]._entry.header, gen[1]._header)
                         ELSE files]_vars

\* a session was opened, given an event and finished; finish was called again
C7_Witness ==
    /\ traceCall.op = "finish" /\ traceCall.result = "ok"
    /\ gen[1]._file.null /\ gen[1]._archive = "deleted"
    /\ Len(traceDatabase) = 1
    /\ traceDatabase[1] = gen[1]._entry
    /\ gen[1]._entry.header \in DOMAIN files
    /\ files[gen[1]._entry.header] = <<gen[1]._header>>
    /\ gen[1]._entry.path \in DOMAIN files
    /\ Len(files[gen[1]._entry.path]) = 1

\* C8: every initialize call, on any generator and whether or not the file opens,
\* reads the session counter and adds one to it, so any two initialize calls,
\* also for kernels of the same name or of names with the same first 20
\* characters, derive different access-log paths and different header paths.
C8_CounterAndPaths ==
    /\ _counter = Len(initLog)
    /\ \A i \in DOMAIN initLog : initLog[i].count = i - 1
    /\ \A i, j \in DOMAIN initLog :
         i # j => /\ initLog[i].path # initLog[j].path
                  /\ initLog[i].header # initLog[j].header

\* two initialize calls, one on each generator, for kernels whose names differ
\* after the first 20 characters, the second failing to open its file
C8_Witness ==
    /\ Len(initLog) = 2
    /\ initLog[1].generator # initLog[2].generator
    /\ gen[1]._entry.name # gen[2]._entry.name
    /\ Truncate(gen[1]._entry.name) = Truncate(gen[2]._entry.name)
    /\ traceCall.op = "initialize" /\ traceCall.result = "throw"
    /\ _counter = 2

-----------------------------------------------------------------------------
(* Claims about the handlers of BasicBlockInstrumentor.                    *)

\* C11 (as claimed): createPass on an instrumentor whose type was never
\* assigned, or is none of the three types, ends in the configuration error,
\* produces no pass and has issued no device operation.
C11_UnsetTypeFails ==
    (instrCall.op = "createPass" /\ (~typeAssigned \/ type \notin InstrumentationTypes)) =>
        /\ instrCall.result = "No basic block instrumentation pass specified!"
        /\ pass = NoPass
        /\ devLog = <<>>
        /\ \A a \in DOMAIN device : ~device[a].live

\* createPass returned a pass on an instrumentor whose type was never assigned
C11_Witness ==
    /\ instrCall = OkCall("createPass")
    /\ ~typeAssigned
    /\ pass # NoPass

\* C12 (as claimed): analyze with a target name the module lacks ends in an error,
\* and neither basicBlocks nor labels holds anything read from a kernel.
C12_MissingKernelFails ==
    (instrCall.op = "analyze" /\ kernelName # "" /\ kernelName \notin DOMAIN ModuleKernels) =>
        /\ instrCall.result # "ok"
        /\ basicBlocks \in {Uninit, 0}
        /\ labels = <<>>

\* analyze returned normally for a kernel the module lacks, with labels and
\* a block count read through the end iterator
C12_Witness ==
    /\ instrCall = OkCall("analyze")
    /\ kernelName = "missing"
    /\ basicBlocks > 0
    /\ labels # <<>>

\* the block count of a kernel set, the entry and exit blocks of each excluded
RECURSIVE SumBlockCounts(_)
SumBlockCounts(names) ==
    IF names = {} THEN 0
    ELSE LET n == CHOOSE x \in names : TRUE
         IN  (ModuleKernels[n].dfgSize - 2) + SumBlockCounts(names \ {n})

\* C13 (as claimed): analyze completes normally with basicBlocks equal to the
\* named kernel's graph size minus two, or, with no target, to the sum over all
\* kernels of the graph size minus two.
C13_BlockCount ==
    (instrCall.op = "analyze" /\ kernelName \in DOMAIN ModuleKernels \cup {""}) =>
        /\ instrCall.result = "ok"
        /\ basicBlocks = IF kernelName # "" THEN ModuleKernels[kernelName].dfgSize - 2
                         ELSE SumBlockCounts(DOMAIN ModuleKernels)

\* analyze ran with no target kernel: the count includes the entry and exit
\* block of every kernel
C13_Witness ==
    /\ instrCall.op = "analyze"
    /\ kernelName = ""
    /\ basicBlocks = SumBlockCounts(DOMAIN ModuleKernels)
                        + 2 * Cardinality(DOMAIN ModuleKernels)

\* the named-kernel half of C13, which the code satisfies
C13_NamedBlockCount ==
    (instrCall.op = "analyze" /\ kernelName \in DOMAIN ModuleKernels) =>
        /\ instrCall.result = "ok"
        /\ basicBlocks = ModuleKernels[kernelName].dfgSize - 2

\* C14: a call of initialize issues cudaMalloc, cudaMemset, cudaMemcpyToSymbol in
\* that order; a failing stage throws its own message and no later stage is issued.
C14_StagesInOrder ==
    (instrCall.op = "initialize") =>
        /\ \E n \in 1..Len(InitStages) : devLog = SubSeq(InitStages, 1, n)
        /\ CASE instrCall.result =
                  "Could not allocate sufficient memory on device (cudaMalloc failed)!" ->
                     devLog = <<"cudaMalloc">>
             [] instrCall.result = "cudaMemset failed!" ->
                     devLog = <<"cudaMalloc", "cudaMemset">>
             [] instrCall.result = "cudaMemcpyToSymbol failed!" ->
                     devLog = <<"cudaMalloc", "cudaMemset", "cudaMemcpyToSymbol">>
             [] instrCall.result = "ok" ->
                     devLog = <<"cudaMalloc", "cudaMemset", "cudaMemcpyToSymbol">>
             [] OTHER -> FALSE

\* initialize failed at the zero fill: the allocation was issued, the bind was not
C14_Witness ==
    /\ instrCall = Threw("initialize", "cudaMemset failed!")
    /\ devLog = <<"cudaMalloc", "cudaMemset">>
    /\ symbol = NullPtr

\* C15 (as claimed): a call of extractResults whose device-to-host copy fails ends
\* in an error, builds no kernel profile and emits no report.
C15_CopyFailureAborts ==
    [][(extractResults /\ devLog' # <<>> /\ devLog'[1] = "cudaMemcpy failed") =>
          /\ instrCall'.result # "ok"
          /\ kernelProfile' = kernelProfile
          /\ out' = out]_vars

\* extractResults returned normally with a report although its copy had failed
C15_Witness ==
    /\ instrCall = OkCall("extractResults")
    /\ devLog # <<>> /\ devLog[1] = "cudaMemcpy failed"
    /\ out # NoReport
    /\ kernelProfile # EmptyProfile

\* C17 (as claimed): after initialize has failed at the zero fill or at the bind,
\* no allocated buffer remains on the device.
C17_ReleasedOnFailure ==
    (/\ instrCall.op = "initialize"
     /\ instrCall.result \in {"cudaMemset failed!", "cudaMemcpyToSymbol failed!"}) =>
        \A a \in DOMAIN device : ~device[a].live

\* initialize threw at the bind and its buffer is still allocated
C17_Witness ==
    /\ instrCall = Threw("initialize", "cudaMemcpyToSymbol failed!")
    /\ counter # NullPtr /\ counter # Uninit
    /\ device[counter].live

\* C18 (as claimed): extractResults copies from and frees only a buffer that is
\* still allocated, and no allocated buffer is ever left without `counter`
\* pointing to it.
C18_ReleasedExactlyOnce ==
    [][/\ (extractResults /\ counter # NullPtr) => device[counter].live
       /\ \A a \in DOMAIN device : device'[a].live => counter' = a]_vars

\* a second extractResults without a new initialize: the copy read a freed
\* buffer and the buffer was freed again
C18_Witness ==
    /\ instrCall.op = "extractResults"
    /\ devLog = <<"cudaMemcpy failed", "cudaFree failed">>
    /\ counter # NullPtr /\ ~device[counter].live

\* an allocated buffer that `counter` no longer points to
C18_Leaked ==
    \E a \in DOMAIN device : device[a].live /\ counter # a

-----------------------------------------------------------------------------
(* Claims about the access log of MemoryTraceGenerator.                    *)

\* the i-th set bit of an active mask, counting lanes from 0
NthLane(active, i) ==
    CHOOSE a \in active : Cardinality({b \in active : b < a}) = i - 1

\* the Access of the i-th lane address of a traced instruction
LaneAccess(ev, i) ==
    [address |-> ev.memory_addresses[i], threadID |-> NthLane(ev.active, i),
     size |-> ev.memory_sizes[i]]

\* the Access records the Event of a traced instruction is to hold
ExpectedAccesses(ev) ==
    IF ev.opcode = "Tex"
    THEN [n \in 1..(4 * Len(ev.memory_addresses)) |-> LaneAccess(ev, ((n - 1) \div 4) + 1)]
    ELSE [i \in 1..Len(ev.memory_addresses) |-> LaneAccess(ev, i)]

\* C16: in full mode with a session open, an event call for Ld or St appends to
\* the access log one Event holding one Access per lane address, in lane order,
\* with the thread id of the matching set bit of the active mask; for Tex the
\* Event holds four per lane and its address space is Texture; the Events
\* logged before are left as they are, so the log is in arrival order.
C16_EventRecords ==
    [][(/\ traceCall'.op = "event"
        /\ gen'[1]._header.dynamic_instructions = gen[1]._header.dynamic_instructions + 1
        /\ ~gen[1].headerOnly /\ gen[1]._archive = "live") =>
          LET ev == traceCall'.arg
              path == gen[1]._file.path
              log == files'[path]
          IN  IF ev.opcode \in {"Ld", "St", "Tex"}
              THEN /\ Len(log) = Len(files[path]) + 1
                   /\ SubSeq(log, 1, Len(files[path])) = files[path]
                   /\ log[Len(log)].accesses = ExpectedAccesses(ev)
                   /\ log[Len(log)].opcode = ev.opcode
                   /\ log[Len(log)].PC = ev.PC
                   /\ log[Len(log)].addressSpace =
                        IF ev.opcode = "Tex" THEN "Texture" ELSE ev.addressSpace
              ELSE log = files[path]]_vars

\* the log holds a store by lanes 0 and 3 followed by a texture fetch by lanes
\* 0 and 3 declared in the global space
C16_Witness ==
    /\ traceCall.op = "event" /\ traceCall.result = "ok"
    /\ ~gen[1]._file.null
    /\ LET log == files[gen[1]._file.path]
       IN  /\ Len(log) = 2
           /\ log[1].opcode = "St" /\ Len(log[1].accesses) = 2
           /\ log[1].accesses[2].threadID = 3
           /\ log[2].opcode = "Tex" /\ log[2].addressSpace = "Texture"
           /\ traceCall.arg.addressSpace = "Global"
           /\ Len(log[2].accesses) = 8
           /\ log[2].accesses[4].threadID = 0 /\ log[2].accesses[5].threadID = 3

\* C19 (as claimed): an event call never fails in a write through an archive
\* that is not open (before the first initialize, after finish), and after a
\* finish call returns the generator holds no stream.
C19_Lifecycle ==
    /\ traceCall.op = "event" => traceCall.result = "ok"
    /\ (traceCall.op = "finish" /\ traceCall.result # "crash") =>
           gen[traceCall.generator]._file.null

\* an event call on the full generator before its first initialize wrote
\* through the archive pointer the constructor left unassigned
C19_Witness ==
    /\ traceCall.op = "event" /\ traceCall.result = "crash"
    /\ _counter = 0
    /\ ~gen[1].headerOnly
    /\ gen[1]._archive = "unassigned"

\* an event call on the full generator after finish, the archive deleted
C19_AfterFinish ==
    /\ traceCall.op = "event" /\ traceCall.result = "crash"
    /\ gen[1]._file.null
    /\ gen[1]._archive = "deleted"

\* the part of C19 the code satisfies: no stream is held after finish
C19_NoStreamAfterFinish ==
    (traceCall.op = "finish" /\ traceCall.result # "crash") =>
        gen[traceCall.generator]._file.null

\* C20: right after a successful initialize every count, byte and word total,
\* segment and half-warp count and both address bounds of the header are zero;
\* the block dimensions, thread_count, headerOnly and global_extent hold the
\* values of the session that starts.
C20_FreshHeader ==
    (traceCall.op = "initialize" /\ traceCall.result = "ok") =>
        LET h == gen[traceCall.generator]._header
            kernel == traceCall.arg
        IN  /\ h.dynamic_instructions = 0 /\ h.dynamic_operations = 0
            /\ h.const_accesses = 0 /\ h.global_accesses = 0 /\ h.local_accesses = 0
            /\ h.param_accesses = 0 /\ h.shared_accesses = 0 /\ h.texture_accesses = 0
            /\ h.global_min_address = Zero64 /\ h.global_max_address = Zero64
            /\ h.global_instructions = 0 /\ h.texture_instructions = 0
            /\ h.global_bytes = 0 /\ h.shared_bytes = 0 /\ h.texture_bytes = 0
            /\ h.global_words = 0 /\ h.texture_words = 0
            /\ h.global_segments = 0 /\ h.halfwarps = 0
            /\ <<h.blockDimX, h.blockDimY, h.blockDimZ>> = kernel.blockDim
            /\ h.thread_count = kernel.maxThreadsPerBlock
            /\ h.headerOnly = gen[traceCall.generator].headerOnly
            /\ h.global_extent = extent(kernel)

\* a second session has just been opened on a generator whose first session
\* logged an event
C20_Witness ==
    /\ traceCall.op = "initialize" /\ traceCall.result = "ok"
    /\ Len(initLog) = 2
    /\ initLog[1].path \in DOMAIN files
    /\ files[initLog[1].path] # <<>>
    /\ gen[1]._header.dynamic_instructions = 0
    /\ gen[1]._header.global_extent > 0

-----------------------------------------------------------------------------
(* Claims about the frame of Header::access.                               *)

\* the access counter of an address space
AccessCounter ==
    [sp \in {"Const", "Global", "Local", "Param", "Shared", "Texture"} |->
        CASE sp = "Const" -> "const_accesses"
          [] sp = "Global" -> "global_accesses"
          [] sp = "Local" -> "local_accesses"
          [] sp = "Param" -> "param_accesses"
          [] sp = "Shared" -> "shared_accesses"
          [] sp = "Texture" -> "texture_accesses"]

\* the step is a call access(sp, b) for some b
AccessCalled(sp) ==
    headerArgs'.accesses[sp].calls = headerArgs.accesses[sp].calls + 1

\* the byte argument of the call access(sp, b) the step makes
BytesPassed(sp) == headerArgs'.accesses[sp].bytes - headerArgs.accesses[sp].bytes

\* C21 (as claimed): a call access(space, bytes) with space one of Const, Local,
\* Param, Shared adds one to the access counter of that space and changes no
\* other field of the header.
C21_OnlyTheCounter ==
    [][\A sp \in {"Const", "Local", "Param", "Shared"} :
          AccessCalled(sp) =>
              header' = [header EXCEPT ![AccessCounter[sp]] = @ + 1]]_vars

\* C21 (amended): a call access(space, bytes) with space one of Const, Local,
\* Param adds one to the access counter of that space and changes no other field;
\* with Shared it adds one to shared_accesses and bytes to shared_bytes and changes
\* no other field; the instruction counters change only for Global and Texture.
C21_CounterAndSharedBytes ==
    [][/\ \A sp \in {"Const", "Local", "Param"} :
             AccessCalled(sp) =>
                 header' = [header EXCEPT ![AccessCounter[sp]] = @ + 1]
       /\ AccessCalled("Shared") =>
             header' = [header EXCEPT !.shared_accesses = @ + 1,
                                      !.shared_bytes = @ + BytesPassed("Shared")]
       /\ (\/ header'.global_instructions # header.global_instructions
           \/ header'.texture_instructions # header.texture_instructions) =>
             (AccessCalled("Global") \/ AccessCalled("Texture"))]_vars

\* access(Shared, 8) has been called on a header that counted a Const and a
\* Global access: the shared byte total holds the 8 bytes
C21_Witness ==
    /\ headerArgs.accesses["Shared"] = [calls |-> 1, bytes |-> 8]
    /\ headerArgs.accesses["Const"].calls = 1
    /\ headerArgs.accesses["Global"].calls = 1
    /\ header.shared_accesses = 1 /\ header.shared_bytes = 8
    /\ header.const_accesses = 1
    /\ header.texture_accesses = 0

-----------------------------------------------------------------------------
(* Claims about the half-warp count.                                       *)

\* the step is a traced memory instruction delivered to the generators
MemoryEventStep ==
    /\ traceCall'.op = "traceEvent"
    /\ gen'[1]._header.dynamic_instructions = gen[1]._header.dynamic_instructions + 1
    /\ traceCall'.arg.opcode \in {"Ld", "St", "Tex"}

\* the active lanes of an instruction whose position exceeds half the thread count
PastHalfWarp(ev, thread_count) == {lane \in ev.active : lane > thread_count \div 2}

\* what the instruction of the step adds to a counter of generator g's header
SegmentsAdded(g) == gen'[g]._header.global_segments - gen[g]._header.global_segments
HalfwarpsAdded(g) == gen'[g]._header.halfwarps - gen[g]._header.halfwarps

\* the bounds C22 derives: halfwarps never exceeds global_segments, an instruction
\* whose lanes all lie in the first half-warp leaves halfwarps unchanged, and
\* each lane adds at most one segment
HalfWarpBounds(g) ==
    LET ev == traceCall'.arg
    IN  /\ gen'[g]._header.halfwarps <= gen'[g]._header.global_segments
        /\ HalfwarpsAdded(g) >= 0
        /\ HalfwarpsAdded(g) <= SegmentsAdded(g)
        /\ SegmentsAdded(g) <= Len(ev.memory_addresses)
        /\ InFirstHalfWarp(ev, gen[g]._header.thread_count) => HalfwarpsAdded(g) = 0

\* every lane past the half-warp boundary counts a segment and a half-warp
\* crossing; the other lanes count segments only
HalfWarpPerLane(g) ==
    LET ev == traceCall'.arg
        past == Cardinality(PastHalfWarp(ev, gen[g]._header.thread_count))
    IN  /\ HalfwarpsAdded(g) = past
        /\ SegmentsAdded(g) >= past
        /\ SegmentsAdded(g) - past <= Len(ev.memory_addresses) - past

\* C22 (as claimed): for every generator and every traced memory instruction,
\* each lane whose position exceeds half the thread count adds one to
\* global_segments and one to halfwarps, the other lanes add to global_segments
\* only, halfwarps never exceeds global_segments, stays unchanged when all lanes
\* lie in the first half-warp, and each lane adds at most one segment.
C22_HalfWarpCounts ==
    [][MemoryEventStep =>
          \A g \in Generators : HalfWarpPerLane(g) /\ HalfWarpBounds(g)]_vars

\* the per-lane statement of C22 on the full generator, which the code satisfies
C22_FullGenerator ==
    [][MemoryEventStep => HalfWarpPerLane(1) /\ HalfWarpBounds(1)]_vars

\* the derived bounds of C22 on both generators, which the code satisfies
C22_Bounds ==
    [][MemoryEventStep => \A g \in Generators : HalfWarpBounds(g)]_vars

\* lane 3 of 4 alone was active in a traced load: the full generator counted a
\* half-warp crossing, the header-only generator counted none
C22_Witness ==
    /\ traceCall.op = "traceEvent"
    /\ traceCall.arg.active = {3}
    /\ gen[1]._header.thread_count = 4
    /\ gen[1]._header.dynamic_instructions = 1
    /\ gen[1]._header.halfwarps = 1 /\ gen[1]._header.global_segments = 1
    /\ gen[2]._header.halfwarps = 0 /\ gen[2]._header.global_segments = 1

-----------------------------------------------------------------------------
(* Claims about the label list.                                            *)

\* the labels of a kernel's control-flow graph, in graph order, but for those of
\* the entry and the exit block
BlockLabels(name) ==
    SelectSeq(ModuleKernels[name].cfg, LAMBDA l : l \notin {"entry", "exit"})

\* C23 (as claimed): after analyze has returned for a target kernel, labels is
\* the kernel's block labels in graph order, entry and exit left out, one per
\* counted block, whatever analyses came before.
C23_LabelsOfTarget ==
    (instrCall = OkCall("analyze") /\ kernelName \in DOMAIN ModuleKernels) =>
        /\ labels = BlockLabels(kernelName)
        /\ Len(labels) = basicBlocks

\* analyze has returned a second time for the same kernel: the labels of the
\* first analysis stand in front of those of the second
C23_Witness ==
    /\ instrCall = OkCall("analyze")
    /\ kernelName \in DOMAIN ModuleKernels
    /\ labels = BlockLabels(kernelName) \o BlockLabels(kernelName)
    /\ Len(labels) = 2 * basicBlocks
    /\ basicBlocks > 0

\* the list after the analyses so far, when each appends to the previous list
C23_LabelsAccumulate ==
    (instrCall = OkCall("analyze") /\ kernelName \in DOMAIN ModuleKernels) =>
        \E n \in 1..(MaxBlocks + 1) :
            /\ Len(labels) = n * basicBlocks
            /\ \A i \in DOMAIN labels :
                 labels[i] = BlockLabels(kernelName)[((i - 1) % basicBlocks) + 1]

-----------------------------------------------------------------------------
(* Claims about the candidate addresses of the extent.                     *)

\* the width in bits of an element of a parameter of the type (0: any other type)
ElementWidth(t) ==
    CASE t \in {"b8", "s8", "u8"} -> 8
      [] t \in {"b16", "s16", "u16"} -> 16
      [] t \in {"b32", "s32", "u32"} -> 32
      [] t \in {"b64", "s64", "u64"} -> 64
      [] OTHER -> 0

RECURSIVE ElementBytes(_, _)
\* the bytes of the elements 1..j of the parameter, the first element first
ElementBytes(parameter, j) ==
    IF j = 0 THEN <<>>
    ELSE ElementBytes(parameter, j - 1) \o parameter.arrayValues[j]

\* the candidate after element j: for widths 8, 16, 32 the low 64 bits of the
\* elements 1..j written one after the other below a zero, the first element in
\* the most significant place; for width 64 element j alone; zero otherwise
PackedCandidate(parameter, j) ==
    LET w == ElementWidth(parameter.type)
        bytes == Zero64 \o ElementBytes(parameter, j)
    IN  IF w = 64 THEN parameter.arrayValues[j]
        ELSE IF w = 0 THEN Zero64
        ELSE SubSeq(bytes, Len(bytes) - 7, Len(bytes))

\* the one allocation a candidate resolves to: that of the global table, and
\* only when the global table has none that of the table of the device
Resolved(address) ==
    IF \E a \in GlobalAllocations : Within(address, a)
    THEN CHOOSE a \in GlobalAllocations : Within(address, a)
    ELSE IF \E a \in DeviceAllocations : Within(address, a)
    THEN CHOOSE a \in DeviceAllocations : Within(address, a)
    ELSE NoAllocation

\* the allocations the candidates of the kernel resolve to
ResolvedBy(kernel) ==
    {Resolved(PackedCandidate(kernel.parameters[pos[1]], pos[2])) : pos \in Positions(kernel)}
        \ {NoAllocation}

\* C24: the extent a session starts with is the total size of the allocations
\* that the candidates resolve to, where the candidate after element j of a
\* parameter is the elements 1..j packed most significant first into 64 bits
\* (bits shifted past bit 63 lost), or element j alone for 64-bit elements, and
\* each candidate, prefixes of an array included, resolves to one allocation at
\* most: the global one if there is one, else the one of the device.
C24_PackedCandidates ==
    (traceCall.op = "initialize" /\ traceCall.result = "ok") =>
        LET hit == ResolvedBy(traceCall.arg)
        IN  gen[traceCall.generator]._header.global_extent
              = SumOver([a \in hit |-> a.size], hit)

\* a session on a kernel with the 8-bit elements 1, 2 (candidates 1, in the table
\* of the device, and 258, in both tables) and three 32-bit elements of which the
\* third shifts the first out: 8 + 16 + 32 bytes
C24_Witness ==
    /\ traceCall.op = "initialize" /\ traceCall.result = "ok"
    /\ traceCall.arg.parameters =
          <<[type |-> "u8", arrayValues |-> <<<<1>>, <<2>>>>], OverflowParameter>>
    /\ PackedCandidate(traceCall.arg.parameters[1], 2) = U64(258)
    /\ getMemoryAllocation(U64(258)) # NoAllocation
    /\ getGlobalMemoryAllocation(U64(258)) # NoAllocation
    /\ PackedCandidate(OverflowParameter, 2) # Zero64
    /\ PackedCandidate(OverflowParameter, 3) = U64(512)
    /\ gen[1]._header.global_extent = 56

=============================================================================
